---- MODULE Spec2Model ----
(***************************************************************************)
(* Model of the cocktail suggestion page (streamlit_app.py): the cleanup   *)
(* and JSON decoding of the remote model's reply, and the session state    *)
(* (suggestions, selected_cocktail) across the script runs of main().      *)
(*                                                                         *)
(* A Python str is a sequence of characters; a character is a one-letter   *)
(* TLA+ string, except the backtick, which is written BT.                  *)
(***************************************************************************)
EXTENDS Integers, Sequences, FiniteSets, TLC

BT == "BACKTICK"

\* ------------------------------------------------------------------------
\* Text helpers
\* ------------------------------------------------------------------------

\* Characters str.strip() and the regex class \s remove (those of the alphabet)
Whitespace == {" ", "\n", "\r", "\t"}

Digits == {"0", "1", "2", "3", "4", "5", "6", "7", "8", "9"}

Slice(s, a, b) == IF a > b THEN <<>> ELSE SubSeq(s, a, b)

StartsWithAt(s, i, p) ==
  /\ i + Len(p) - 1 <= Len(s)
  /\ \A k \in 1..Len(p) : s[i + k - 1] = p[k]

EndsWith(s, p) ==
  /\ Len(p) <= Len(s)
  /\ \A k \in 1..Len(p) : s[Len(s) - Len(p) + k] = p[k]

\* first index >= i that does not hold a whitespace character (Len(s)+1 if none)
RECURSIVE SkipWs(_, _)
SkipWs(s, i) ==
  IF i <= Len(s) /\ s[i] \in Whitespace THEN SkipWs(s, i + 1) ELSE i

\* last index <= i that does not hold a whitespace character (0 if none)
RECURSIVE SkipWsBack(_, _)
SkipWsBack(s, i) ==
  IF i >= 1 /\ s[i] \in Whitespace THEN SkipWsBack(s, i - 1) ELSE i

\* str.strip()
Strip(s) == Slice(s, SkipWs(s, 1), SkipWsBack(s, Len(s)))

\* str.replace(c, '') for a one-character c
Remove(s, c) == SelectSeq(s, LAMBDA ch : ch /= c)

FenceJson == <<BT, BT, BT, "j", "s", "o", "n">>
Fence == <<BT, BT, BT>>

\* StripFences with the second alternative of the pattern left out
StripFences_leading_only(s) ==
  IF StartsWithAt(s, 1, FenceJson)
  THEN Slice(s, SkipWs(s, Len(FenceJson) + 1), Len(s)) ELSE s

\* re.sub(r'^```json\s*|\s*```$', '', s): the first alternative can match
\* only at position 0, the second only where whitespace* ``` reaches the end
\* of s; the scan is left to right over what the first match left.
StripFences(s) ==
  LET lead == IF StartsWithAt(s, 1, FenceJson)
              THEN SkipWs(s, Len(FenceJson) + 1) ELSE 1
      rest == Slice(s, lead, Len(s))
  IN  IF EndsWith(rest, Fence)
      THEN Slice(rest, 1, SkipWsBack(rest, Len(rest) - Len(Fence)))
      ELSE rest

\* lines 113-114: the string handed to json.loads
CleanContent(content) ==
  Strip(Remove(Remove(StripFences(Strip(content)), "\n"), "\r"))

\* ------------------------------------------------------------------------
\* json.loads, for documents over the alphabet: objects, arrays, strings
\* without escapes, integers, true, false, null
\* ------------------------------------------------------------------------

None == [t |-> "none"]
PyStr(s) == [t |-> "str", s |-> s]
PyList(a) == [t |-> "list", a |-> a]
\* a dict is the sequence of its <<key, value>> pairs in insertion order
PyDict(o) == [t |-> "dict", o |-> o]
PyBool(b) == [t |-> "bool", b |-> b]
PyInt(d) == [t |-> "int", d |-> d]

Fail == [ok |-> FALSE, v |-> None, i |-> 0]
Ok(v, i) == [ok |-> TRUE, v |-> v, i |-> i]

\* index of the first '"' at or after i (Len(s)+1 if none)
RECURSIVE FindQuote(_, _)
FindQuote(s, i) ==
  IF i <= Len(s) /\ s[i] /= "\"" THEN FindQuote(s, i + 1) ELSE i

\* a string literal opening at s[i] = '"': control characters are rejected
\* (the alphabet has no backslash, so no escape sequence arises)
ScanString(s, i) ==
  LET j == FindQuote(s, i + 1)
  IN  IF j > Len(s) THEN Fail
      ELSE IF \E k \in (i + 1)..(j - 1) : s[k] \in {"\n", "\r", "\t"}
      THEN Fail
      ELSE Ok(Slice(s, i + 1, j - 1), j + 1)

RECURSIVE SkipDigits(_, _)
SkipDigits(s, i) ==
  IF i <= Len(s) /\ s[i] \in Digits THEN SkipDigits(s, i + 1) ELSE i

\* dict[key] = value: a repeated key keeps its place and takes the new value
DictPut(o, key, val) ==
  IF \E k \in 1..Len(o) : o[k][1] = key
  THEN [k \in 1..Len(o) |-> IF o[k][1] = key THEN <<key, val>> ELSE o[k]]
  ELSE Append(o, <<key, val>>)

RECURSIVE ScanValue(_, _), ScanMembers(_, _, _), ScanElements(_, _, _)

\* the value that starts at s[i]
ScanValue(s, i) ==
  IF i > Len(s) THEN Fail
  ELSE IF s[i] = "\"" THEN
    LET r == ScanString(s, i)
    IN  IF r.ok THEN Ok(PyStr(r.v), r.i) ELSE Fail
  ELSE IF s[i] = "{" THEN
    LET j == SkipWs(s, i + 1)
    IN  IF j <= Len(s) /\ s[j] = "}" THEN Ok(PyDict(<<>>), j + 1)
        ELSE ScanMembers(s, j, <<>>)
  ELSE IF s[i] = "[" THEN
    LET j == SkipWs(s, i + 1)
    IN  IF j <= Len(s) /\ s[j] = "]" THEN Ok(PyList(<<>>), j + 1)
        ELSE ScanElements(s, j, <<>>)
  ELSE IF StartsWithAt(s, i, <<"t", "r", "u", "e">>) THEN Ok(PyBool(TRUE), i + 4)
  ELSE IF StartsWithAt(s, i, <<"f", "a", "l", "s", "e">>) THEN Ok(PyBool(FALSE), i + 5)
  ELSE IF StartsWithAt(s, i, <<"n", "u", "l", "l">>) THEN Ok(None, i + 4)
  ELSE IF s[i] = "0" THEN Ok(PyInt(<<"0">>), i + 1)
  ELSE IF s[i] \in Digits THEN
    LET j == SkipDigits(s, i)
    IN  Ok(PyInt(Slice(s, i, j - 1)), j)
  ELSE Fail

\* "key" : value pairs of an object from s[i] on, acc the pairs read so far
ScanMembers(s, i, acc) ==
  IF i > Len(s) \/ s[i] /= "\"" THEN Fail
  ELSE
    LET key == ScanString(s, i)
    IN  IF ~key.ok THEN Fail
        ELSE
          LET c == SkipWs(s, key.i)
          IN  IF c > Len(s) \/ s[c] /= ":" THEN Fail
              ELSE
                LET val == ScanValue(s, SkipWs(s, c + 1))
                IN  IF ~val.ok THEN Fail
                    ELSE
                      LET e == SkipWs(s, val.i)
                          o == DictPut(acc, key.v, val.v)
                      IN  IF e > Len(s) THEN Fail
                          ELSE IF s[e] = "}" THEN Ok(PyDict(o), e + 1)
                          ELSE IF s[e] = "," THEN ScanMembers(s, SkipWs(s, e + 1), o)
                          ELSE Fail

\* the elements of an array from s[i] on, acc the elements read so far
ScanElements(s, i, acc) ==
  LET val == ScanValue(s, i)
  IN  IF ~val.ok THEN Fail
      ELSE
        LET e == SkipWs(s, val.i)
            a == Append(acc, val.v)
        IN  IF e > Len(s) THEN Fail
            ELSE IF s[e] = "]" THEN Ok(PyList(a), e + 1)
            ELSE IF s[e] = "," THEN ScanElements(s, SkipWs(s, e + 1), a)
            ELSE Fail

\* json.loads(s): one value, whitespace around it, nothing after it;
\* ok = FALSE stands for JSONDecodeError
JsonLoads(s) ==
  LET r == ScanValue(s, SkipWs(s, 1))
  IN  IF r.ok /\ SkipWs(s, r.i) > Len(s) THEN r ELSE Fail

\* ------------------------------------------------------------------------
\* Replies of the remote model: JSON text in the format SYSTEM_PROMPT asks
\* for, as written by the model with or without line breaks and fences
\* ------------------------------------------------------------------------

K_identified_items == <<"i","d","e","n","t","i","f","i","e","d","_","i","t","e","m","s">>
K_cocktails == <<"c","o","c","k","t","a","i","l","s">>
K_name == <<"n","a","m","e">>
K_type == <<"t","y","p","e">>
K_notes == <<"n","o","t","e","s">>
K_category == <<"c","a","t","e","g","o","r","y">>
K_short_description == <<"s","h","o","r","t","_","d","e","s","c","r","i","p","t","i","o","n">>
K_ingredients == <<"i","n","g","r","e","d","i","e","n","t","s">>
K_amount == <<"a","m","o","u","n","t">>
K_available == <<"a","v","a","i","l","a","b","l","e">>
K_price_range == <<"p","r","i","c","e","_","r","a","n","g","e">>
K_instructions == <<"i","n","s","t","r","u","c","t","i","o","n","s">>

Quoted(s) == <<"\"">> \o s \o <<"\"">>

RECURSIVE Dumps(_, _), DumpsPairs(_, _, _), DumpsItems(_, _, _)

\* the JSON text of a value; sep is what the writer puts between tokens
Dumps(v, sep) ==
  IF v.t = "str" THEN Quoted(v.s)
  ELSE IF v.t = "int" THEN v.d
  ELSE IF v.t = "bool" THEN (IF v.b THEN <<"t","r","u","e">> ELSE <<"f","a","l","s","e">>)
  ELSE IF v.t = "none" THEN <<"n","u","l","l">>
  ELSE IF v.t = "list" THEN
    (IF v.a = <<>> THEN <<"[", "]">>
     ELSE <<"[">> \o sep \o DumpsItems(v.a, 1, sep) \o sep \o <<"]">>)
  ELSE
    (IF v.o = <<>> THEN <<"{", "}">>
     ELSE <<"{">> \o sep \o DumpsPairs(v.o, 1, sep) \o sep \o <<"}">>)

DumpsItems(a, k, sep) ==
  IF k = Len(a) THEN Dumps(a[k], sep)
  ELSE Dumps(a[k], sep) \o <<",">> \o sep \o DumpsItems(a, k + 1, sep)

DumpsPairs(o, k, sep) ==
  LET pair == Quoted(o[k][1]) \o <<":">> \o Dumps(o[k][2], sep)
  IN  IF k = Len(o) THEN pair
      ELSE pair \o <<",">> \o sep \o DumpsPairs(o, k + 1, sep)

ItemOf(name, notes) ==
  PyDict(<< <<K_name, PyStr(name)>>, <<K_type, PyStr(<<"a">>)>>,
            <<K_notes, PyStr(notes)>> >>)

\* an identified item the model wrote without the notes key
ItemNoNotes(name) ==
  PyDict(<< <<K_name, PyStr(name)>>, <<K_type, PyStr(<<"a">>)>> >>)

IngredientOf(name, available) ==
  PyDict(<< <<K_name, PyStr(name)>>, <<K_amount, PyStr(<<"3", "0", "m", "l">>)>>,
            <<K_available, PyBool(available)>>,
            <<K_price_range, PyStr(<<"9">>)>> >>)

CocktailOf(name, descr, ingredients) ==
  PyDict(<< <<K_name, PyStr(name)>>, <<K_category, PyStr(<<"c">>)>>,
            <<K_short_description, PyStr(descr)>>,
            <<K_ingredients, PyList(ingredients)>>,
            <<K_instructions, PyList(<<PyStr(<<"s","t","i","r">>)>>)>> >>)

Mojito == CocktailOf(<<"M","o","j","i","t","o">>, <<"m","i","n","t">>,
                     <<IngredientOf(<<"R","u","m">>, TRUE)>>)
Negroni == CocktailOf(<<"N","e","g","r","o","n","i">>, <<"r","e","d">>,
                      <<IngredientOf(<<"G","i","n">>, TRUE),
                        IngredientOf(<<"C","a","m","p","a","r","i">>, FALSE)>>)
\* a later analysis may suggest a cocktail of the same name with other content
NegroniDry == CocktailOf(<<"N","e","g","r","o","n","i">>, <<"d","r","y">>,
                         <<IngredientOf(<<"G","i","n">>, TRUE)>>)
Daiquiri == CocktailOf(<<"D","a","i","q","u","i","r","i">>, <<"s","o","u","r">>,
                       <<IngredientOf(<<"R","u","m">>, TRUE)>>)

DocEmpty == PyDict(<<>>)
DocNoEntries ==
  PyDict(<< <<K_identified_items, PyList(<<>>)>>, <<K_cocktails, PyList(<<>>)>> >>)
DocFull ==
  PyDict(<< <<K_identified_items,
              PyList(<<ItemOf(<<"G","i","n">>, <<"o","l","d">>),
                       ItemOf(<<"L","i","m","e">>, <<>>)>>)>>,
            <<K_cocktails, PyList(<<Mojito, Negroni>>)>> >>)
DocNoNotes ==
  PyDict(<< <<K_identified_items, PyList(<<ItemNoNotes(<<"G","i","n">>)>>)>>,
            <<K_cocktails, PyList(<<Mojito>>)>> >>)
DocOther ==
  PyDict(<< <<K_cocktails, PyList(<<Daiquiri, NegroniDry>>)>> >>)
\* fence markers inside a string value
DocTicks ==
  PyDict(<< <<K_identified_items, PyList(<<ItemOf(FenceJson, Fence)>>)>> >>)

Docs == {DocEmpty, DocNoEntries, DocFull, DocNoNotes, DocOther, DocTicks}

\* what the writer puts between tokens: nothing, or CR LF and an indent
Separators == {<<>>, <<"\r", "\n", " ">>}

\* replies that are no JSON at all
BrokenBodies ==
  { <<"{", "i", "n", "v", "a", "l", "i", "d">>,
    <<"{", "\"", "a", "\"", ":", "[", "}">> }

\* a reply that carries a fence of its own around the JSON text
FencedBodies ==
  { FenceJson \o <<"\n">> \o Dumps(DocNoEntries, <<>>) \o <<"\n">> \o Fence }

Bodies ==
  {Dumps(d, sep) : d \in Docs, sep \in Separators} \cup BrokenBodies \cup FencedBodies

\* what precedes and follows the body in the reply: nothing, a json fence,
\* a json fence with blanks around it, a json fence never closed or never
\* opened
JsonFenceWrappings ==
  { <<<<>>, <<>>>>,
    <<FenceJson \o <<"\n">>, <<"\n">> \o Fence>>,
    <<<<" ", "\n">> \o FenceJson, Fence \o <<" ", "\n">>>>,
    <<FenceJson \o <<"\n">>, <<>>>>,
    <<<<>>, <<"\n">> \o Fence>> }

\* a fence without the json tag
PlainFenceWrappings == { <<Fence \o <<"\n">>, <<"\n">> \o Fence>> }

Wrappings == JsonFenceWrappings \cup PlainFenceWrappings

Replies == {[pre |-> w[1], body |-> b, post |-> w[2]] : w \in Wrappings, b \in Bodies}

\* response.choices[0].message.content
ContentOf(r) == r.pre \o r.body \o r.post

\* ------------------------------------------------------------------------
\* Python values at run time
\* ------------------------------------------------------------------------

PyBytes(s) == [t |-> "bytes", s |-> s]

\* bool(v), as in "if v:"
Truthy(v) ==
  IF v.t = "none" THEN FALSE
  ELSE IF v.t = "bool" THEN v.b
  ELSE IF v.t = "int" THEN v.d /= <<"0">>
  ELSE IF v.t = "list" THEN v.a /= <<>>
  ELSE IF v.t = "dict" THEN v.o /= <<>>
  ELSE v.s /= <<>>

\* key in d, for a dict d
HasKey(d, key) == \E k \in 1..Len(d.o) : d.o[k][1] = key

\* d[key], for a dict d that has the key
Subscript(d, key) == d.o[CHOOSE k \in 1..Len(d.o) : d.o[k][1] = key][2]

\* 'key' in v: a key of a dict, an element of a list
Contains(v, key) ==
  IF v.t = "dict" THEN HasKey(v, key)
  ELSE IF v.t = "list" THEN \E k \in 1..Len(v.a) : v.a[k] = PyStr(key)
  ELSE FALSE

\* ------------------------------------------------------------------------
\* What a script run puts on the page: a sequence of elements
\* ------------------------------------------------------------------------

El(w, k, n, a, b) == [w |-> w, k |-> k, n |-> n, a |-> a, b |-> b]

\* the result of a piece of the script: the elements it emitted and the
\* exception it raised, if any
Done(out) == [out |-> out, exc |-> "none"]
Raised(out, exc) == [out |-> out, exc |-> exc]

\* lines 123-132
process_image(image_data) ==
  IF image_data = "photo"
  THEN [ret |-> PyBytes(<<"p", "h", "o", "t", "o">>), out |-> <<>>]
  ELSE [ret |-> None, out |-> <<El("error", "image", 0, <<>>, <<>>)>>]

\* parse_api_response writing cleaned_content where the code writes content
parse_api_response_shows_cleaned(content) ==
  IF content.t /= "str"
  THEN [ret |-> None, out |-> <<>>, exc |-> "AttributeError"]
  ELSE
    LET cleaned_content == CleanContent(content.s)
        decoded == JsonLoads(cleaned_content)
    IN  IF decoded.ok
        THEN [ret |-> decoded.v, out |-> <<>>, exc |-> "none"]
        ELSE [ret |-> None,
              out |-> << El("error", "json", 0, <<>>, <<>>),
                         El("write", "failed_content", 0, cleaned_content, <<>>) >>,
              exc |-> "none"]

\* lines 102-121; content is a str, or None when the model sent no text
parse_api_response(content) ==
  IF content.t /= "str"
  THEN [ret |-> None, out |-> <<>>, exc |-> "AttributeError"]
  ELSE
    LET cleaned_content == CleanContent(content.s)
        decoded == JsonLoads(cleaned_content)
    IN  IF decoded.ok
        THEN [ret |-> decoded.v, out |-> <<>>, exc |-> "none"]
        ELSE [ret |-> None,
              out |-> << El("error", "json", 0, <<>>, <<>>),
                         El("write", "failed_content", 0, content.s, <<>>) >>,
              exc |-> "none"]

\* what client.chat.completions.create does: it raises, or it returns a reply
\* whose content is text or None
ApiError == [kind |-> "error", r |-> [pre |-> <<>>, body |-> <<>>, post |-> <<>>]]
ApiNoContent == [kind |-> "nocontent", r |-> [pre |-> <<>>, body |-> <<>>, post |-> <<>>]]
ApiReply(r) == [kind |-> "reply", r |-> r]
NoCall == [kind |-> "nocall", r |-> [pre |-> <<>>, body |-> <<>>, post |-> <<>>]]

ApiOutcomes == {ApiError, ApiNoContent} \cup {ApiReply(r) : r \in Replies}

MessageContent(api) == IF api.kind = "reply" THEN PyStr(ContentOf(api.r)) ELSE None

\* lines 96-100: the return of parse_api_response, or its exception caught
suggestions_or_none(parsed) ==
  IF parsed.exc /= "none"
  THEN [ret |-> None, out |-> parsed.out \o <<El("error", "api", 0, <<>>, <<>>)>>,
        calls |-> 1]
  ELSE [ret |-> parsed.ret, out |-> parsed.out, calls |-> 1]

\* lines 60-100; calls counts the requests sent to the remote model
get_cocktail_suggestions(outcome) ==
  IF outcome.kind = "error"
  THEN [ret |-> None, out |-> <<El("error", "api", 0, <<>>, <<>>)>>, calls |-> 1]
  ELSE suggestions_or_none(parse_api_response(MessageContent(outcome)))

\* lines 179-186
RECURSIVE render_instructions_from(_, _)
render_instructions_from(instructions, i) ==
  IF i > Len(instructions) THEN <<>>
  ELSE <<El("markdown", "step", i, instructions[i].s, <<>>)>>
         \o render_instructions_from(instructions, i + 1)

render_instructions(instructions) == Done(render_instructions_from(instructions.a, 1))

\* lines 158-177
render_ingredient_row(ingredient) ==
  IF ~HasKey(ingredient, K_available) THEN Raised(<<>>, "KeyError")
  ELSE
    LET available == Truthy(Subscript(ingredient, K_available))
        price_info == IF ~available /\ HasKey(ingredient, K_price_range)
                      THEN Subscript(ingredient, K_price_range).s ELSE <<>>
    IN  IF ~HasKey(ingredient, K_amount) \/ ~HasKey(ingredient, K_name)
        THEN Raised(<<>>, "KeyError")
        ELSE Done(<<El("markdown", IF available THEN "available" ELSE "missing", 0,
                       Subscript(ingredient, K_amount).s,
                       Subscript(ingredient, K_name).s \o price_info)>>)

RECURSIVE render_ingredients_from(_, _)
render_ingredients_from(ingredients, i) ==
  IF i > Len(ingredients) THEN Done(<<>>)
  ELSE
    LET row == render_ingredient_row(ingredients[i])
    IN  IF row.exc /= "none" THEN row
        ELSE
          LET rest == render_ingredients_from(ingredients, i + 1)
          IN  Raised(row.out \o rest.out, rest.exc)

\* lines 134-156
display_cocktail_details(cocktail) ==
  IF \/ ~HasKey(cocktail, K_name) \/ ~HasKey(cocktail, K_category)
     \/ ~HasKey(cocktail, K_short_description)
  THEN Raised(<<>>, "KeyError")
  ELSE
    LET header == <<El("markdown", "details", 0, Subscript(cocktail, K_name).s,
                       Subscript(cocktail, K_category).s \o <<" ", "|", " ">>
                         \o Subscript(cocktail, K_short_description).s)>>
    IN  IF ~HasKey(cocktail, K_ingredients) THEN Raised(header, "KeyError")
        ELSE
          LET rows == render_ingredients_from(Subscript(cocktail, K_ingredients).a, 1)
          IN  IF rows.exc /= "none" THEN Raised(header \o rows.out, rows.exc)
              ELSE IF ~HasKey(cocktail, K_instructions)
              THEN Raised(header \o rows.out
                            \o <<El("markdown", "instructions_header", 0, <<>>, <<>>)>>,
                          "KeyError")
              ELSE Done(header \o rows.out
                          \o <<El("markdown", "instructions_header", 0, <<>>, <<>>)>>
                          \o render_instructions(Subscript(cocktail, K_instructions)).out)

\* lines 228-232: the loop over the identified items, from the i-th on
RECURSIVE identified_items_from(_, _)
identified_items_from(items, i) ==
  IF i > Len(items) THEN Done(<<>>)
  ELSE IF ~HasKey(items[i], K_name) \/ ~HasKey(items[i], K_notes)
  THEN Raised(<<>>, "KeyError")
  ELSE
    LET name == Subscript(items[i], K_name).s
        notes == Subscript(items[i], K_notes)
        description == IF Truthy(notes) THEN name \o <<" ", ":", " ">> \o notes.s
                       ELSE name
        rest == identified_items_from(items, i + 1)
    IN  Raised(<<El("write", "item", i, description, <<>>)>> \o rest.out, rest.exc)

\* what the press that started this run was: nothing, the Analyze button, or
\* the button whose widget key is key
NoPress == [w |-> "none", key |-> <<>>]
PressAnalyze == [w |-> "analyze", key |-> <<>>]
PressCocktail(key) == [w |-> "cocktail", key |-> key]

\* lines 237-239: the loop over the cocktails, from the i-th on; sel is
\* st.session_state.selected_cocktail as the loop leaves it
RECURSIVE cocktail_buttons_from(_, _, _, _)
cocktail_buttons_from(cocktails, i, pressed, sel) ==
  IF i > Len(cocktails) THEN [out |-> <<>>, exc |-> "none", sel |-> sel]
  ELSE IF ~HasKey(cocktails[i], K_name) \/ ~HasKey(cocktails[i], K_short_description)
  THEN [out |-> <<>>, exc |-> "KeyError", sel |-> sel]
  ELSE
    LET name == Subscript(cocktails[i], K_name).s
        label == name \o <<" ", "-", " ">> \o Subscript(cocktails[i], K_short_description).s
        clicked == pressed.w = "cocktail" /\ pressed.key = name
        rest == cocktail_buttons_from(cocktails, i + 1, pressed,
                                      IF clicked THEN cocktails[i] ELSE sel)
    IN  [out |-> <<El("button", "cocktail", i, label, name)>> \o rest.out,
         exc |-> rest.exc, sel |-> rest.sel]

\* lines 225-239
display_suggestions(sugg, pressed, sel) ==
  LET items == IF Contains(sugg, K_identified_items)
               THEN LET lst == identified_items_from(Subscript(sugg, K_identified_items).a, 1)
                    IN  Raised(<<El("markdown", "items_header", 0, <<>>, <<>>)>> \o lst.out,
                               lst.exc)
               ELSE Done(<<>>)
  IN  IF items.exc /= "none" THEN [out |-> items.out, exc |-> items.exc, sel |-> sel]
      ELSE IF Contains(sugg, K_cocktails)
      THEN LET btn == cocktail_buttons_from(Subscript(sugg, K_cocktails).a, 1, pressed, sel)
           IN  [out |-> items.out \o <<El("markdown", "cocktails_header", 0, <<>>, <<>>)>>
                          \o btn.out,
                exc |-> btn.exc, sel |-> btn.sel]
      ELSE [out |-> items.out, exc |-> "none", sel |-> sel]

\* display with a second press on the selected cocktail taking the selection
\* away
display_toggles(sugg, pressed, sel) ==
  LET listing == IF sugg /= None THEN display_suggestions(sugg, pressed, sel)
                 ELSE [out |-> <<>>, exc |-> "none", sel |-> sel]
      again == /\ pressed.w = "cocktail" /\ sel /= None
               /\ Subscript(sel, K_name).s = pressed.key
  IN  IF listing.exc /= "none" \/ listing.sel = None THEN listing
      ELSE IF again THEN [out |-> listing.out, exc |-> "none", sel |-> None]
      ELSE LET details == display_cocktail_details(listing.sel)
           IN  [out |-> listing.out \o details.out, exc |-> details.exc,
                sel |-> listing.sel]

\* lines 224-244: what is drawn below the input for a session state
display(sugg, pressed, sel) ==
  LET listing == IF sugg /= None THEN display_suggestions(sugg, pressed, sel)
                 ELSE [out |-> <<>>, exc |-> "none", sel |-> sel]
  IN  IF listing.exc /= "none" \/ listing.sel = None THEN listing
      ELSE LET details == display_cocktail_details(listing.sel)
           IN  [out |-> listing.out \o details.out, exc |-> details.exc,
                sel |-> listing.sel]

\* lines 202-215: the input widgets
input_widgets(camera, image) ==
  <<El("input", IF camera THEN "camera" ELSE "upload", 0, <<>>, <<>>)>>
    \o (IF image /= "none"
        THEN <<El("image", image, 0, <<>>, <<>>), El("button", "analyze", 0, <<>>, <<>>)>>
        ELSE <<>>)

\* analysis without the test of img_bytes
analysis_ignores_decode_error(img, outcome) ==
  LET got == get_cocktail_suggestions(outcome)
  IN  [ret |-> got.ret, out |-> img.out \o got.out, calls |-> got.calls]

\* lines 216-219: what the Analyze press computes; img is what
\* process_image returned
analysis(img, outcome) ==
  IF Truthy(img.ret)
  THEN LET got == get_cocktail_suggestions(outcome)
       IN  [ret |-> got.ret, out |-> img.out \o got.out, calls |-> got.calls]
  ELSE [ret |-> None, out |-> img.out, calls |-> 0]

NoAnalysis == [ret |-> None, out |-> <<>>, calls |-> 0]

\* the end of a run: the session state it leaves, the page it drew, the
\* requests it sent
run_result(sugg, widgets, got, shown, outcome) ==
  [suggestions |-> sugg,
   selected_cocktail |-> shown.sel,
   out |-> widgets \o got.out \o shown.out,
   exc |-> shown.exc,
   calls |-> got.calls,
   returned |-> got.ret,
   api |-> IF got.calls = 0 THEN NoCall ELSE outcome]

\* store_and_display without line 222
store_and_display_keeps_selection(sugg, sel, widgets, pressed, got, outcome) ==
  IF Truthy(got.ret)
  THEN run_result(got.ret, widgets, got, display(got.ret, pressed, sel), outcome)
  ELSE run_result(sugg, widgets, got, display(sugg, pressed, sel), outcome)

\* store_and_display without the test of line 220: every Analyze run stores
store_and_display_unconditional(sugg, sel, widgets, pressed, got, outcome) ==
  IF pressed.w = "analyze"
  THEN run_result(got.ret, widgets, got, display(got.ret, pressed, None), outcome)
  ELSE run_result(sugg, widgets, got, display(sugg, pressed, sel), outcome)

\* lines 220-244: got is what the Analyze press computed, if it was pressed
store_and_display(sugg, sel, widgets, pressed, got, outcome) ==
  IF Truthy(got.ret)
  THEN run_result(got.ret, widgets, got, display(got.ret, pressed, None), outcome)
  ELSE run_result(sugg, widgets, got, display(sugg, pressed, sel), outcome)

\* main forgetting the result when the input widget holds no image
main_clears_without_image(sugg, sel, camera, image, pressed, outcome) ==
  IF image = "none"
  THEN store_and_display(None, None, input_widgets(camera, image), pressed,
                         NoAnalysis, outcome)
  ELSE store_and_display(sugg, sel, input_widgets(camera, image), pressed,
                         IF pressed.w = "analyze"
                         THEN analysis(process_image(image), outcome)
                         ELSE NoAnalysis,
                         outcome)

\* lines 188-244: one run of the script over the session state
main(sugg, sel, camera, image, pressed, outcome) ==
  store_and_display(sugg, sel, input_widgets(camera, image), pressed,
                    IF image /= "none" /\ pressed.w = "analyze"
                    THEN analysis(process_image(image), outcome)
                    ELSE NoAnalysis,
                    outcome)

\* ------------------------------------------------------------------------
\* The session
\* ------------------------------------------------------------------------

\* most requests to the remote model in one session
MaxCalls == 2

\* the file in the input widget: none, a photo, or a file whose header reads
\* as an image and whose data cannot be decoded
Images == {"none", "photo", "truncated"}

\* widget keys a press can carry: the names of the cocktails of all replies
WidgetKeys ==
  { Subscript(c, K_name).s : c \in {Mojito, Negroni, NegroniDry, Daiquiri} }

VARIABLES
  suggestions,        \* st.session_state.suggestions
  selected_cocktail,  \* st.session_state.selected_cocktail
  use_camera,         \* the sidebar toggle
  image_input,        \* the value of the camera or upload widget
  event,              \* what started the last run of the script
  pressed,            \* the button press the last run saw
  api,                \* what the remote call of the last run did
  returned,           \* the local suggestions of the last run (line 219)
  view,               \* the page the last run drew, and how the run ended
  calls               \* requests sent to the remote model so far

vars == <<suggestions, selected_cocktail, use_camera, image_input, event,
          pressed, api, returned, view, calls>>

\* the session after a run r of the script started by ev
AfterRun(ev, camera, image, press, r) ==
  /\ suggestions' = r.suggestions
  /\ selected_cocktail' = r.selected_cocktail
  /\ use_camera' = camera
  /\ image_input' = image
  /\ event' = ev
  /\ pressed' = press
  /\ api' = r.api
  /\ returned' = r.returned
  /\ view' = [out |-> r.out, exc |-> r.exc]
  /\ calls' = calls + r.calls

\* the script runs once for ev, with the widgets as given
Run(ev, camera, image, press, outcome) ==
  AfterRun(ev, camera, image, press,
           main(suggestions, selected_cocktail, camera, image, press, outcome))

\* lines 193-196 and the first run of a new session
Init ==
  /\ suggestions = None
  /\ selected_cocktail = None
  /\ use_camera = FALSE
  /\ image_input = "none"
  /\ event = "start"
  /\ pressed = NoPress
  /\ api = NoCall
  /\ returned = None
  /\ view = [out |-> input_widgets(FALSE, "none"), exc |-> "none"]
  /\ calls = 0

\* line 202: the other input widget replaces the current one and is empty
ToggleCamera == Run("toggle", ~use_camera, "none", NoPress, NoCall)

\* lines 207, 210: a file is taken, uploaded, replaced or removed
ChangeImage ==
  \E image \in Images \ {image_input} :
    Run("image", use_camera, image, NoPress, NoCall)

\* line 215: the Analyze button, drawn only when there is an image
Analyze ==
  /\ image_input /= "none"
  /\ calls < MaxCalls
  /\ \E outcome \in ApiOutcomes :
       Run("analyze", use_camera, image_input, PressAnalyze, outcome)

\* line 238: a press of the button with widget key key
SelectCocktail ==
  \E key \in WidgetKeys :
    Run("cocktail", use_camera, image_input, PressCocktail(key), NoCall)

\* a run of the script with no press and no widget change
Rerun == Run("rerun", use_camera, image_input, NoPress, NoCall)

Next == ToggleCamera \/ ChangeImage \/ Analyze \/ SelectCocktail \/ Rerun

Spec == Init /\ [][Next]_vars

\* ------------------------------------------------------------------------
\* Properties
\* ------------------------------------------------------------------------

\* the text the remote model sent in the last run, and its decoding after
\* the cleanup
LastContent == ContentOf(api.r)
Decoding == [r \in Replies |-> JsonLoads(CleanContent(ContentOf(r)))]
LastDecoded == IF api.kind = "reply" THEN Decoding[api.r] ELSE Fail
Replied == event = "analyze" /\ api.kind = "reply"

CocktailsOf(sugg) ==
  IF sugg /= None /\ Contains(sugg, K_cocktails)
  THEN Subscript(sugg, K_cocktails).a ELSE <<>>

InResult(c, sugg) ==
  \E k \in 1..Len(CocktailsOf(sugg)) : CocktailsOf(sugg)[k] = c

NamedInResult(key, sugg) ==
  \E k \in 1..Len(CocktailsOf(sugg)) :
    Subscript(CocktailsOf(sugg)[k], K_name).s = key

Shows(out, w, k) == \E j \in 1..Len(out) : out[j].w = w /\ out[j].k = k
HasError(out) == \E j \in 1..Len(out) : out[j].w = "error"
IsSuffix(t, s) ==
  Len(t) <= Len(s) /\ Slice(s, Len(s) - Len(t) + 1, Len(s)) = t

SelectionValid ==
  selected_cocktail = None \/ InResult(selected_cocktail, suggestions)

\* C1: the selection is always null or a cocktail of the current result
\* (never non-null while the result is null), and a press for a name that
\* no cocktail of the current result has leaves result and selection as
\* they were.
C1_SelectionInResult ==
  /\ SelectionValid
  /\ [][ /\ SelectionValid'
         /\ (event' = "cocktail" /\ ~NamedInResult(pressed'.key, suggestions)
               => suggestions' = suggestions
                  /\ selected_cocktail' = selected_cocktail) ]_vars

\* a cocktail is selected and the last press named a cocktail the result
\* does not have
C1_Witness ==
  /\ event = "cocktail"
  /\ selected_cocktail /= None
  /\ ~NamedInResult(pressed.key, suggestions)

\* C2 as claimed: whenever the reply of an Analyze run decodes, the decoded
\* value is the result and the selection is null afterwards.
C2_DecodedReplyBecomesResult ==
  (Replied /\ LastDecoded.ok)
    => (suggestions = LastDecoded.v /\ selected_cocktail = None)

\* an Analyze run that failed: the image did not decode, the call raised,
\* or the reply did not decode
Failed ==
  /\ event = "analyze"
  /\ \/ image_input = "truncated"
     \/ api.kind \in {"error", "nocontent"}
     \/ (api.kind = "reply" /\ ~LastDecoded.ok)

\* C3: a failed Analyze run leaves result and selection as they were, shows
\* an error, and still draws the prior result below it.
C3_FailureKeepsState ==
  [][ Failed' =>
        /\ suggestions' = suggestions
        /\ selected_cocktail' = selected_cocktail
        /\ HasError(view'.out)
        /\ IsSuffix(display(suggestions, NoPress, selected_cocktail).out,
                    view'.out) ]_vars

\* a reply that did not decode came while a cocktail was selected
C3_Witness ==
  /\ Replied /\ ~LastDecoded.ok
  /\ suggestions /= None
  /\ selected_cocktail /= None
  /\ Shows(view.out, "markdown", "details")

C5_ObjectAccepted ==
  (Replied /\ LastDecoded.ok /\ LastDecoded.v.t = "dict")
    => /\ suggestions = LastDecoded.v
       /\ selected_cocktail = None
       /\ ~HasError(view.out)

\* C6: for a reply that is JSON text, with line breaks in it, inside an
\* optional leading json fence and an optional trailing fence, the value
\* parse_api_response returns is the decoding of the text between the
\* fences with the line breaks taken out; a fence inside the fences stays.
C6_RecoversFencedJson ==
  (Replied /\ <<api.r.pre, api.r.post>> \in JsonFenceWrappings)
    => LET expected == JsonLoads(Remove(Remove(api.r.body, "\n"), "\r"))
       IN  /\ expected.ok => returned = expected.v
           /\ (~expected.ok /\ api.r.pre /= <<>> /\ api.r.post /= <<>>)
                => (returned = None /\ Shows(view.out, "error", "json"))

\* a fenced reply with line breaks was decoded to the full document
C6_Witness ==
  /\ Replied
  /\ api.r.pre /= <<>> /\ api.r.post /= <<>>
  /\ <<api.r.pre, api.r.post>> \in JsonFenceWrappings
  /\ \E j \in 1..Len(api.r.body) : api.r.body[j] = "\n"
  /\ returned = DocFull

\* C7: a run sends at most one request; a run not started by Analyze sends
\* none; an Analyze run whose image does not decode sends none; an Analyze
\* run that reached the remote model sent exactly one, failed or not.
C7_AtMostOneCall ==
  [][ /\ calls' <= calls + 1
      /\ (event' /= "analyze" => calls' = calls /\ api'.kind = "nocall")
      /\ (event' = "analyze" /\ image_input' = "truncated"
            => calls' = calls /\ api'.kind = "nocall")
      /\ (event' = "analyze" /\ api'.kind /= "nocall" => calls' = calls + 1) ]_vars

\* a second Analyze run got a reply that did not decode, after one request
\* before it
C7_Witness == Replied /\ ~LastDecoded.ok /\ calls = 2

\* C8: the selection goes from non-null to null only in an Analyze run that
\* stored a new result.
C8_NoDeselect ==
  [][ (selected_cocktail /= None /\ selected_cocktail' = None)
        => /\ event' = "analyze"
           /\ Truthy(returned')
           /\ suggestions' = returned' ]_vars

\* a cocktail is still selected after a failed Analyze run
C8_Witness == Failed /\ selected_cocktail /= None

\* the items of a result, and whether the k-th lacks the notes key
ItemsOf(sugg) ==
  IF sugg /= None /\ Contains(sugg, K_identified_items)
  THEN Subscript(sugg, K_identified_items).a ELSE <<>>

\* C9 as claimed: drawing a stored result never raises, and an item without
\* notes is drawn by its name.
C9_ListingNeverRaises ==
  /\ view.exc = "none"
  /\ \A k \in 1..Len(ItemsOf(suggestions)) :
       ~HasKey(ItemsOf(suggestions)[k], K_notes)
         => \E j \in 1..Len(view.out) :
              /\ view.out[j].w = "write" /\ view.out[j].k = "item"
              /\ view.out[j].a = Subscript(ItemsOf(suggestions)[k], K_name).s

\* C10: a run with no press (a plain re-run, the toggle, a change of the
\* image) leaves result and selection as they were, and a plain re-run
\* after a run that showed no error draws the same page again.
C10_RerenderKeepsState ==
  [][ /\ (event' \in {"rerun", "toggle", "image"}
            => suggestions' = suggestions
               /\ selected_cocktail' = selected_cocktail)
      /\ (event' = "rerun" /\ ~HasError(view.out) => view' = view) ]_vars

\* the image was removed while a cocktail was selected
C10_Witness ==
  /\ event = "image" /\ image_input = "none"
  /\ selected_cocktail /= None
  /\ Shows(view.out, "markdown", "details")

====
